---------------------------- MODULE Spec2Model ----------------------------
(***************************************************************************)
(* A model of the PowerWash Simulator cheat menu (src/main.py,             *)
(* src/game_config.py, src/utility.py, src/consts.py).                     *)
(*                                                                         *)
(* Python strings that the code inspects character by character (the       *)
(* game-version key, a line typed at the menu) are sequences of            *)
(* one-character strings; dictionary keys that are only looked up          *)
(* ("soap", "flight", ...) are plain strings.  None is the record None.    *)
(*                                                                         *)
(* Five specifications share the variables:                                *)
(*   Spec        the program: main(argv) from parse_args to exit;          *)
(*   SpecManager a client of the library: CheatManager.register/toggle and *)
(*               run_menu on a manager built over any GameConfig;          *)
(*   SpecSession a client calling build_manager over any GameConfig and    *)
(*               then run_menu;                                            *)
(*   SpecConfig  get_game_config applied to every bounded key;             *)
(*   SpecDescribe MemoryAddress.describe applied to bounded addresses.     *)
(***************************************************************************)
EXTENDS Integers, Sequences, FiniteSets, TLC

VARIABLES
    pc,        \* where control is: see the actions
    argv,      \* main's argument list
    env,       \* the machine: is psutil importable, which processes run
    version,   \* the key handed to get_game_config: None, or [key |-> k]
    config,    \* the selected GameConfig, or None
    process,   \* the AttachedProcess, or None
    features,  \* CheatManager.features: identifier -> CheatFeature
    calls,     \* every callback invocation so far, in order
    errors,    \* every logger.error record so far, in order
    out,       \* every line group printed to stdout so far, in order
    exitCode,  \* <<>> while the process runs, <<code>> once it has exited
    exc,       \* the exception that left the last call, or None
    history,   \* every call or input so far, with the state it started from
    address,   \* the MemoryAddress describe() is called on, or None
    rendered   \* the string describe() returned, <<>> before it has

vars == <<pc, argv, env, version, config, process, features, calls, errors,
          out, exitCode, exc, history, address, rendered>>

None == [none |-> TRUE]

-----------------------------------------------------------------------------
(* Bounds of the model *)

\* longest game-version key tried
MaxKeyLen == 3

\* most lines read by one run of the menu in Spec
MaxInputs == 3

\* most calls and inputs a client makes in SpecManager
MaxOps == 4

-----------------------------------------------------------------------------
(* Strings *)

\* the characters game-version keys are built from
KeyAlphabet == {"v", "V", "1", "2", "3"}

Keys == UNION {[1..n -> KeyAlphabet] : n \in 0..MaxKeyLen}

\* str.lower() on one character of the alphabets used here
LowerChar(c) ==
    CASE c = "V" -> "v"
      [] c = "Q" -> "q"
      [] OTHER -> c

\* str.lower()
lower(s) == [i \in 1..Len(s) |-> LowerChar(s[i])]

\* the characters str.strip() removes
Whitespace == {" ", "\t"}

RECURSIVE lstrip(_)
lstrip(s) ==
    IF s # <<>> /\ Head(s) \in Whitespace THEN lstrip(Tail(s)) ELSE s

RECURSIVE rstrip(_)
rstrip(s) ==
    IF s # <<>> /\ s[Len(s)] \in Whitespace
    THEN rstrip(SubSeq(s, 1, Len(s) - 1))
    ELSE s

\* str.strip()
strip(s) == rstrip(lstrip(s))

-----------------------------------------------------------------------------
(* game_config.py *)

\* An address is a Python int, which has no upper limit: it is the sequence of
\* its base-65536 digits, most significant first (0x100000000 is <<1, 0, 0>>).
MemoryAddress(base, offsets) == [base |-> base, offsets |-> offsets]

\* 0x00000000
Zero == <<0>>

PlaceholderAddress == MemoryAddress(Zero, <<>>)

\* the digits of format code X
HexDigits ==
    <<"0", "1", "2", "3", "4", "5", "6", "7", "8", "9", "A", "B", "C", "D", "E", "F">>

\* the four hex digits of one base-65536 digit
LimbHex(l) ==
    <<HexDigits[(l \div 4096) + 1], HexDigits[((l \div 256) % 16) + 1],
      HexDigits[((l \div 16) % 16) + 1], HexDigits[(l % 16) + 1]>>

RECURSIVE AllHex(_)
AllHex(n) == IF n = <<>> THEN <<>> ELSE LimbHex(Head(n)) \o AllHex(Tail(n))

RECURSIVE StripZeros(_)
StripZeros(ds) ==
    IF Len(ds) > 1 /\ Head(ds) = "0" THEN StripZeros(Tail(ds)) ELSE ds

\* format(n, "X"): the upper-case hex digits of n, without leading zeros
Hex(n) == StripZeros(AllHex(n))

\* the width of format spec 08X
HexWidth == 8

\* zero-padding to a minimum width: longer digit strings are left as they are
RECURSIVE ZeroPad(_, _)
ZeroPad(ds, width) ==
    IF Len(ds) >= width THEN ds ELSE ZeroPad(<<"0">> \o ds, width)

\* f"0x{n:08X}"
Format08X(n) == <<"0", "x">> \o ZeroPad(Hex(n), HexWidth)

Arrow == <<" ", "-", ">", " ">>

\* " -> ".join(parts)
RECURSIVE Join(_)
Join(parts) ==
    IF parts = <<>> THEN <<>>
    ELSE IF Len(parts) = 1 THEN parts[1]
    ELSE parts[1] \o Arrow \o Join(Tail(parts))

\* MemoryAddress.describe()
describe(a) ==
    LET formatted_offsets ==
            Join([i \in 1..Len(a.offsets) |-> Format08X(a.offsets[i])])
    IN  Format08X(a.base)
            \o (IF formatted_offsets # <<>> THEN Arrow \o formatted_offsets ELSE <<>>)

PWS_V1_CONFIG ==
    [name |-> "PowerWash Simulator",
     process_name |-> "PowerWashSimulator.exe",
     base_addresses |->
        [k \in {"currency", "soap", "dirt_level", "flight"} |-> PlaceholderAddress],
     function_hooks |->
        [k \in {"instant_clean", "dirt_esp"} |-> PlaceholderAddress]]

\* a mutant: the v2 profile without the flight address
PWS_V2_CONFIG_no_flight ==
    [name |-> "PowerWash Simulator 2",
     process_name |-> "PowerWashSimulator2.exe",
     base_addresses |->
        [k \in {"currency", "soap", "dirt_level"} |-> PlaceholderAddress],
     function_hooks |->
        [k \in {"instant_clean", "dirt_esp"} |-> PlaceholderAddress]]

PWS_V2_CONFIG ==
    [name |-> "PowerWash Simulator 2",
     process_name |-> "PowerWashSimulator2.exe",
     base_addresses |->
        [k \in {"currency", "soap", "dirt_level", "flight"} |-> PlaceholderAddress],
     function_hooks |->
        [k \in {"instant_clean", "dirt_esp"} |-> PlaceholderAddress]]

V1Key == <<"v", "1">>
V2Key == <<"v", "2">>

SUPPORTED_GAMES == (V1Key :> PWS_V1_CONFIG) @@ (V2Key :> PWS_V2_CONFIG)

\* the message of the KeyError get_game_config raises: the text around the key
\* and the key as it is formatted into it
UnsupportedMessage(key) == <<"Unsupported game version '", key, "'.">>

KeyError(message) == [type |-> "KeyError", message |-> message]

\* a mutant: the key is looked up as supplied
get_game_config_exact(v) ==
    IF v \in DOMAIN SUPPORTED_GAMES
    THEN [raised |-> FALSE, value |-> SUPPORTED_GAMES[v], exc |-> None]
    ELSE [raised |-> TRUE, value |-> None, exc |-> KeyError(UnsupportedMessage(v))]

\* get_game_config(version): the profile returned, or the KeyError raised
get_game_config(v) ==
    LET normalized == lower(v)
    IN  IF normalized \in DOMAIN SUPPORTED_GAMES
        THEN [raised |-> FALSE, value |-> SUPPORTED_GAMES[normalized], exc |-> None]
        ELSE [raised |-> TRUE, value |-> None,
              exc |-> KeyError(UnsupportedMessage(v))]

-----------------------------------------------------------------------------
(* consts.py *)

\* the keys of MENU_OPTIONS, as display_menu prints them
MENU_OPTIONS == <<"1", "2", "3", "4", "q">>

CHEAT_NAMES ==
    [k \in {"soap", "instant_clean", "flight", "dirt_esp"} |->
        CASE k = "soap" -> "Infinite Soap"
          [] k = "instant_clean" -> "Instant Clean"
          [] k = "flight" -> "Flight"
          [] k = "dirt_esp" -> "Dirt ESP"]

-----------------------------------------------------------------------------
(* utility.py *)

ProcessNotFoundError(message) ==
    [type |-> "ProcessNotFoundError", message |-> message]

AttachedProcess(name, pid) == [name |-> name, pid |-> pid, handle |-> None]

\* the index of the first process of procs named process_name, 0 if none
RECURSIVE FirstNamed(_, _, _)
FirstNamed(procs, process_name, i) ==
    IF i > Len(procs) THEN 0
    ELSE IF procs[i].name = process_name THEN i
    ELSE FirstNamed(procs, process_name, i + 1)

\* a mutant: a missing psutil is reported as an error of its own type
find_process_by_name_distinct(process_name, e) ==
    IF ~e.psutil
    THEN [raised |-> TRUE, value |-> None,
          exc |-> [type |-> "DependencyUnavailable",
                   message |-> <<"psutil is not installed", "">>]]
    ELSE LET i == FirstNamed(e.procs, process_name, 1)
         IN  IF i # 0
             THEN [raised |-> FALSE, value |-> e.procs[i], exc |-> None]
             ELSE [raised |-> TRUE, value |-> None,
                   exc |-> ProcessNotFoundError(
                              <<"Could not locate running process", process_name>>)]

\* find_process_by_name(process_name) on machine e
find_process_by_name(process_name, e) ==
    IF ~e.psutil
    THEN [raised |-> TRUE, value |-> None,
          exc |-> ProcessNotFoundError(<<"psutil is not installed", "">>)]
    ELSE LET i == FirstNamed(e.procs, process_name, 1)
         IN  IF i # 0
             THEN [raised |-> FALSE, value |-> e.procs[i], exc |-> None]
             ELSE [raised |-> TRUE, value |-> None,
                   exc |-> ProcessNotFoundError(
                              <<"Could not locate running process", process_name>>)]

\* attach_to_process(config) on machine e
attach_to_process(cfg, e) ==
    LET found == find_process_by_name(cfg.process_name, e)
    IN  IF found.raised
        THEN found
        ELSE [raised |-> FALSE,
              value |-> AttachedProcess(cfg.process_name, found.value.pid),
              exc |-> None]

-----------------------------------------------------------------------------
(* main.py: the callbacks *)

Returned == [raised |-> FALSE, exc |-> None]

Raised(e) == [raised |-> TRUE, exc |-> e]

\* a callback that reads config.base_addresses[key]: the subscript raises
\* KeyError when the profile lacks the key, the rest only formats and logs
ReadsBaseAddress(key, p, cfg, enabled) ==
    IF key \in DOMAIN cfg.base_addresses THEN Returned ELSE Raised(KeyError(<<key>>))

\* a callback that reads config.function_hooks[key]
ReadsFunctionHook(key, p, cfg, enabled) ==
    IF key \in DOMAIN cfg.function_hooks THEN Returned ELSE Raised(KeyError(<<key>>))

toggle_infinite_soap(p, cfg, enabled) == ReadsBaseAddress("soap", p, cfg, enabled)

toggle_instant_clean(p, cfg, enabled) ==
    ReadsFunctionHook("instant_clean", p, cfg, enabled)

toggle_flight(p, cfg, enabled) == ReadsBaseAddress("flight", p, cfg, enabled)

toggle_dirt_esp(p, cfg, enabled) == ReadsFunctionHook("dirt_esp", p, cfg, enabled)

\* the callbacks a feature can be bound to, by name
Callbacks ==
    {"toggle_infinite_soap", "toggle_instant_clean", "toggle_flight",
     "toggle_dirt_esp"}

\* self.callback(process, config, self.enabled)
Invoke(callback, p, cfg, enabled) ==
    CASE callback = "toggle_infinite_soap" -> toggle_infinite_soap(p, cfg, enabled)
      [] callback = "toggle_instant_clean" -> toggle_instant_clean(p, cfg, enabled)
      [] callback = "toggle_flight" -> toggle_flight(p, cfg, enabled)
      [] callback = "toggle_dirt_esp" -> toggle_dirt_esp(p, cfg, enabled)

\* the record of one callback invocation: what it was called with and whether
\* it raised
CallRecord(callback, p, cfg, enabled, raised) ==
    [callback |-> callback, process |-> p, config |-> cfg, enabled |-> enabled,
     raised |-> raised]

-----------------------------------------------------------------------------
(* main.py: CheatFeature and CheatManager *)

\* a mutant: a feature is created enabled
CheatFeature_on(identifier, label, callback) ==
    [identifier |-> identifier, label |-> label, callback |-> callback,
     enabled |-> TRUE]

CheatFeature(identifier, label, callback) ==
    [identifier |-> identifier, label |-> label, callback |-> callback,
     enabled |-> FALSE]

\* a mutant: the callback is invoked before the flag is flipped
CheatFeature_toggle_stale(feature, p, cfg) ==
    LET flipped == [feature EXCEPT !.enabled = ~feature.enabled]
        r == Invoke(feature.callback, p, cfg, feature.enabled)
    IN  [feature |-> flipped,
         calls |-> <<CallRecord(feature.callback, p, cfg, feature.enabled, r.raised)>>,
         exc |-> r.exc]

\* a mutant: toggle switches the feature on instead of flipping it
CheatFeature_toggle_set(feature, p, cfg) ==
    LET flipped == [feature EXCEPT !.enabled = TRUE]
        r == Invoke(flipped.callback, p, cfg, flipped.enabled)
    IN  [feature |-> flipped,
         calls |-> <<CallRecord(flipped.callback, p, cfg, flipped.enabled, r.raised)>>,
         exc |-> r.exc]

\* CheatFeature.toggle(process, config): the feature afterwards, the callback
\* invocation made, and the exception that leaves the method (None if none)
CheatFeature_toggle(feature, p, cfg) ==
    LET flipped == [feature EXCEPT !.enabled = ~feature.enabled]
        r == Invoke(flipped.callback, p, cfg, flipped.enabled)
    IN  [feature |-> flipped,
         calls |-> <<CallRecord(flipped.callback, p, cfg, flipped.enabled, r.raised)>>,
         exc |-> r.exc]

\* str.title() of the identifiers tried that CHEAT_NAMES does not name
title(identifier) ==
    CASE identifier = "noclip" -> "Noclip"
      [] OTHER -> identifier

\* a mutant: an identifier already registered keeps its feature
CheatManager_register_keep(fs, identifier, callback) ==
    LET label == IF identifier \in DOMAIN CHEAT_NAMES
                 THEN CHEAT_NAMES[identifier]
                 ELSE title(identifier)
    IN  fs @@ (identifier :> CheatFeature(identifier, label, callback))

\* CheatManager.register(identifier, callback): manager.features afterwards
CheatManager_register(fs, identifier, callback) ==
    LET label == IF identifier \in DOMAIN CHEAT_NAMES
                 THEN CHEAT_NAMES[identifier]
                 ELSE title(identifier)
    IN  (identifier :> CheatFeature(identifier, label, callback)) @@ fs

UnknownCheat(identifier) == [text |-> "Unknown cheat", arg |-> identifier]

\* a mutant: the feature is subscripted, so an unknown identifier raises
CheatManager_toggle_subscript(fs, p, cfg, identifier) ==
    IF identifier \notin DOMAIN fs
    THEN [features |-> fs, calls |-> <<>>, errors |-> <<>>,
          exc |-> KeyError(<<identifier>>)]
    ELSE LET r == CheatFeature_toggle(fs[identifier], p, cfg)
         IN  [features |-> [fs EXCEPT ![identifier] = r.feature],
              calls |-> r.calls, errors |-> <<>>, exc |-> r.exc]

\* CheatManager.toggle(identifier): manager.features afterwards, the callback
\* invocations made, the errors logged and the exception that leaves the method
CheatManager_toggle(fs, p, cfg, identifier) ==
    IF identifier \notin DOMAIN fs
    THEN [features |-> fs, calls |-> <<>>,
          errors |-> <<UnknownCheat(identifier)>>, exc |-> None]
    ELSE LET r == CheatFeature_toggle(fs[identifier], p, cfg)
         IN  [features |-> [fs EXCEPT ![identifier] = r.feature],
              calls |-> r.calls, errors |-> <<>>, exc |-> r.exc]

-----------------------------------------------------------------------------
(* main.py: the command line *)

\* parse_args(argv).game_version, or the SystemExit(2) of parser.error when
\* the value is not one of the choices, sorted(SUPPORTED_GAMES.keys())
parse_args(av) ==
    LET value == IF av = <<>> THEN V1Key ELSE av[2]
    IN  IF value \in DOMAIN SUPPORTED_GAMES
        THEN [raised |-> FALSE, game_version |-> value, exc |-> None]
        ELSE [raised |-> TRUE, game_version |-> value,
              exc |-> [type |-> "SystemExit", code |-> 2,
                       message |-> <<"invalid choice: '", value, "'">>]]

NoFeatures == <<>>

\* build_manager(config) on machine e: the manager's process and features, or
\* the exception attach_to_process raised
build_manager(cfg, e) ==
    LET attached == attach_to_process(cfg, e)
        f1 == CheatManager_register(NoFeatures, "soap", "toggle_infinite_soap")
        f2 == CheatManager_register(f1, "instant_clean", "toggle_instant_clean")
        f3 == CheatManager_register(f2, "flight", "toggle_flight")
        f4 == CheatManager_register(f3, "dirt_esp", "toggle_dirt_esp")
    IN  IF attached.raised
        THEN [raised |-> TRUE, process |-> None, features |-> None,
              exc |-> attached.exc]
        ELSE [raised |-> FALSE, process |-> attached.value, features |-> f4,
              exc |-> None]

\* a mutant: the failed attach is answered with return 0
main_build_manager_return0(cfg, e) ==
    LET r == build_manager(cfg, e)
    IN  IF r.raised
        THEN [returned |-> TRUE, code |-> <<0>>,
              errors |-> <<[text |-> r.exc.type, arg |-> r.exc.message]>>,
              out |-> <<"remediation">>, process |-> None, features |-> None]
        ELSE [returned |-> FALSE, code |-> <<>>, errors |-> <<>>, out |-> <<>>,
              process |-> r.process, features |-> r.features]

\* main's try: manager = build_manager(config), with its except clause: a
\* ProcessNotFoundError is logged and answered with the remediation text and
\* return 1
main_build_manager(cfg, e) ==
    LET r == build_manager(cfg, e)
    IN  IF r.raised
        THEN [returned |-> TRUE, code |-> <<1>>,
              errors |-> <<[text |-> r.exc.type, arg |-> r.exc.message]>>,
              out |-> <<"remediation">>, process |-> None, features |-> None]
        ELSE [returned |-> FALSE, code |-> <<>>, errors |-> <<>>, out |-> <<>>,
              process |-> r.process, features |-> r.features]

\* a mutant: choices 2 and 3 are bound to each other's feature
MenuDispatch_swapped(choice) ==
    CASE choice = <<"1">> -> [identifier |-> "soap"]
      [] choice = <<"2">> -> [identifier |-> "flight"]
      [] choice = <<"3">> -> [identifier |-> "instant_clean"]
      [] choice = <<"4">> -> [identifier |-> "dirt_esp"]
      [] OTHER -> None

\* the identifier run_menu toggles for a choice, None for any other choice
MenuDispatch(choice) ==
    CASE choice = <<"1">> -> [identifier |-> "soap"]
      [] choice = <<"2">> -> [identifier |-> "instant_clean"]
      [] choice = <<"3">> -> [identifier |-> "flight"]
      [] choice = <<"4">> -> [identifier |-> "dirt_esp"]
      [] OTHER -> None

\* a mutant: an unrecognized choice is passed over without a message
run_menu_turn_quiet(fs, p, cfg, line) ==
    LET choice == lower(strip(line))
        target == MenuDispatch(choice)
    IN  IF choice = <<"q">>
        THEN [looping |-> FALSE, features |-> fs, calls |-> <<>>, errors |-> <<>>,
              out |-> <<"farewell">>, exc |-> None]
        ELSE IF target # None
        THEN LET r == CheatManager_toggle(fs, p, cfg, target.identifier)
             IN  IF r.exc # None
                 THEN [looping |-> FALSE, features |-> r.features, calls |-> r.calls,
                       errors |-> r.errors, out |-> <<>>, exc |-> r.exc]
                 ELSE [looping |-> TRUE, features |-> r.features, calls |-> r.calls,
                       errors |-> r.errors, out |-> <<"menu">>, exc |-> None]
        ELSE [looping |-> TRUE, features |-> fs, calls |-> <<>>, errors |-> <<>>,
              out |-> <<"menu">>, exc |-> None]

\* a mutant: the line is compared with "q" as typed
run_menu_turn_rawq(fs, p, cfg, line) ==
    LET choice == lower(strip(line))
        target == MenuDispatch(choice)
    IN  IF line = <<"q">>
        THEN [looping |-> FALSE, features |-> fs, calls |-> <<>>, errors |-> <<>>,
              out |-> <<"farewell">>, exc |-> None]
        ELSE IF target # None
        THEN LET r == CheatManager_toggle(fs, p, cfg, target.identifier)
             IN  IF r.exc # None
                 THEN [looping |-> FALSE, features |-> r.features, calls |-> r.calls,
                       errors |-> r.errors, out |-> <<>>, exc |-> r.exc]
                 ELSE [looping |-> TRUE, features |-> r.features, calls |-> r.calls,
                       errors |-> r.errors, out |-> <<"menu">>, exc |-> None]
        ELSE [looping |-> TRUE, features |-> fs, calls |-> <<>>, errors |-> <<>>,
              out |-> <<"invalid", "menu">>, exc |-> None]

\* one turn of run_menu's loop, from the line input() returned to the next
\* call of input() (or to the loop's end): looping tells whether the loop goes
\* on, out what was printed, exc the exception that leaves run_menu
run_menu_turn(fs, p, cfg, line) ==
    LET choice == lower(strip(line))
        target == MenuDispatch(choice)
    IN  IF choice = <<"q">>
        THEN [looping |-> FALSE, features |-> fs, calls |-> <<>>, errors |-> <<>>,
              out |-> <<"farewell">>, exc |-> None]
        ELSE IF target # None
        THEN LET r == CheatManager_toggle(fs, p, cfg, target.identifier)
             IN  IF r.exc # None
                 THEN [looping |-> FALSE, features |-> r.features, calls |-> r.calls,
                       errors |-> r.errors, out |-> <<>>, exc |-> r.exc]
                 ELSE [looping |-> TRUE, features |-> r.features, calls |-> r.calls,
                       errors |-> r.errors, out |-> <<"menu">>, exc |-> None]
        ELSE [looping |-> TRUE, features |-> fs, calls |-> <<>>, errors |-> <<>>,
              out |-> <<"invalid", "menu">>, exc |-> None]

-----------------------------------------------------------------------------
(* SpecConfig: get_game_config on every key of at most MaxKeyLen characters *)

InitConfig ==
    /\ pc = "call"
    /\ version \in {[key |-> k] : k \in Keys}
    /\ argv = <<>>
    /\ env = None
    /\ config = None
    /\ process = None
    /\ features = None
    /\ calls = <<>>
    /\ errors = <<>>
    /\ out = <<>>
    /\ exitCode = <<>>
    /\ exc = None
    /\ history = <<>>
    /\ address = None
    /\ rendered = <<>>

\* a client calls get_game_config(version)
CallGetGameConfig ==
    /\ pc = "call"
    /\ LET r == get_game_config(version.key)
       IN  /\ config' = r.value
           /\ exc' = r.exc
           /\ pc' = IF r.raised THEN "raised" ELSE "returned"
    /\ UNCHANGED <<address, rendered>>
    /\ UNCHANGED <<argv, env, version, process, features, calls, errors, out,
                   exitCode, history>>

NextConfig == CallGetGameConfig

SpecConfig == InitConfig /\ [][NextConfig]_vars

-----------------------------------------------------------------------------
(* SpecDescribe: MemoryAddress.describe on bounded addresses *)

\* most offsets of an address tried
MaxOffsets == 2

\* the integers tried as base and offsets: 0x0, 0x1A, 0xFFFFFFFF, 0x100000000
\* and the 64-bit 0x7FF6123456789ABC
Words ==
    {<<0>>, <<26>>, <<65535, 65535>>, <<1, 0, 0>>, <<32758, 4660, 22136, 39612>>}

Addresses ==
    {MemoryAddress(b, os) : b \in Words,
                            os \in UNION {[1..n -> Words] : n \in 0..MaxOffsets}}

InitDescribe ==
    /\ pc = "describe"
    /\ address \in Addresses
    /\ rendered = <<>>
    /\ argv = <<>>
    /\ env = None
    /\ version = None
    /\ config = None
    /\ process = None
    /\ features = None
    /\ calls = <<>>
    /\ errors = <<>>
    /\ out = <<>>
    /\ exitCode = <<>>
    /\ exc = None
    /\ history = <<>>

\* a caller (log_address_chain, a callback) calls address.describe()
CallDescribe ==
    /\ pc = "describe"
    /\ rendered' = describe(address)
    /\ pc' = "described"
    /\ UNCHANGED <<argv, env, version, config, process, features, calls, errors,
                   out, exitCode, exc, history, address>>

NextDescribe == CallDescribe

SpecDescribe == InitDescribe /\ [][NextDescribe]_vars

-----------------------------------------------------------------------------
(* Inputs *)

\* main's argument list: empty, or -g with a key
Argvs == {<<>>} \cup {<<"-g", k>> : k \in Keys}

Game1 == [name |-> "PowerWashSimulator.exe", pid |-> 101]
Game1Again == [name |-> "PowerWashSimulator.exe", pid |-> 202]
Game2 == [name |-> "PowerWashSimulator2.exe", pid |-> 303]

\* the machines tried: psutil importable or not, and what process_iter yields
Environments ==
    [psutil : BOOLEAN,
     procs : {<<>>, <<Game1>>, <<Game2>>, <<Game1, Game2>>, <<Game1Again, Game1>>}]

\* the lines typed at the menu
Lines ==
    {<<"1">>, <<"2">>, <<"3">>, <<"4">>, <<"q">>, <<" ", "Q", " ">>, <<"9">>,
     <<>>, <<" ", "3", "\t">>, <<"1", "2">>}

\* a GameConfig a client builds that lacks the flight address and every hook
PartialConfig ==
    [name |-> "PowerWash Simulator 3",
     process_name |-> "PowerWashSimulator3.exe",
     base_addresses |-> [k \in {"soap"} |-> PlaceholderAddress],
     function_hooks |-> <<>>]

\* the profiles a client builds a manager over
GameConfigs == {PWS_V1_CONFIG, PWS_V2_CONFIG, PartialConfig}

\* the identifiers a client registers and toggles
Identifiers == {"soap", "flight", "noclip"}

\* the callbacks a client binds them to
ClientCallbacks == {"toggle_infinite_soap", "toggle_flight"}

\* what a call or an input starts from
Event(op, arg) ==
    [op |-> op, arg |-> arg, features |-> features, ncalls |-> Len(calls),
     nerrors |-> Len(errors), nout |-> Len(out)]

-----------------------------------------------------------------------------
(* Spec: the program, main(argv) *)

Init ==
    /\ pc = "parse_args"
    /\ argv \in Argvs
    /\ env \in Environments
    /\ version = None
    /\ config = None
    /\ process = None
    /\ features = None
    /\ calls = <<>>
    /\ errors = <<>>
    /\ out = <<>>
    /\ exitCode = <<>>
    /\ exc = None
    /\ history = <<>>
    /\ address = None
    /\ rendered = <<>>

\* main: args = parse_args(argv); parser.error leaves the process with code 2
ParseArgs ==
    /\ pc = "parse_args"
    /\ LET r == parse_args(argv)
       IN  IF r.raised
           THEN /\ pc' = "exited"
                /\ exc' = r.exc
                /\ exitCode' = <<r.exc.code>>
                /\ UNCHANGED version
           ELSE /\ pc' = "get_game_config"
                /\ version' = [key |-> r.game_version]
                /\ UNCHANGED <<exc, exitCode>>
    /\ UNCHANGED <<address, rendered>>
    /\ UNCHANGED <<argv, env, config, process, features, calls, errors, out,
                   history>>

\* main: config = get_game_config(game_version), a KeyError logged and
\* answered with return 1
GetGameConfig ==
    /\ pc = "get_game_config"
    /\ LET r == get_game_config(version.key)
       IN  IF r.raised
           THEN /\ pc' = "exited"
                /\ errors' = Append(errors, [text |-> "KeyError", arg |-> r.exc.message])
                /\ exitCode' = <<1>>
                /\ UNCHANGED <<config, out>>
           ELSE /\ pc' = "build_manager"
                /\ config' = r.value
                /\ out' = Append(out, "selected")
                /\ UNCHANGED <<errors, exitCode>>
    /\ UNCHANGED <<address, rendered>>
    /\ UNCHANGED <<argv, env, version, process, features, calls, exc, history>>

\* main: manager = build_manager(config); main returns when the attach failed,
\* otherwise run_menu starts and displays the menu
BuildManager ==
    /\ pc = "build_manager"
    /\ LET r == main_build_manager(config, env)
       IN  /\ pc' = IF r.returned THEN "exited" ELSE "menu"
           /\ errors' = errors \o r.errors
           /\ out' = out \o r.out \o (IF r.returned THEN <<>> ELSE <<"menu">>)
           /\ exitCode' = r.code
           /\ process' = r.process
           /\ features' = r.features
    /\ UNCHANGED <<address, rendered>>
    /\ UNCHANGED <<argv, env, version, config, calls, exc, history>>

\* run_menu under main reads a line; main returns 0 after q, and an exception
\* that leaves run_menu leaves main too: the interpreter exits with code 1
MainMenuInput(line) ==
    /\ pc = "menu"
    /\ Len(history) < MaxInputs
    /\ LET r == run_menu_turn(features, process, config, line)
       IN  /\ features' = r.features
           /\ calls' = calls \o r.calls
           /\ errors' = errors \o r.errors
           /\ out' = out \o r.out
           /\ exc' = r.exc
           /\ pc' = IF r.exc # None THEN "crashed"
                    ELSE IF r.looping THEN "menu" ELSE "exited"
           /\ exitCode' = IF r.exc # None THEN <<1>>
                          ELSE IF r.looping THEN <<>> ELSE <<0>>
    /\ history' = Append(history, Event("input", line))
    /\ UNCHANGED <<address, rendered>>
    /\ UNCHANGED <<argv, env, version, config, process>>

\* input() meets the end of stdin: EOFError leaves run_menu and main
MainMenuEOF ==
    /\ pc = "menu"
    /\ pc' = "crashed"
    /\ exc' = [type |-> "EOFError"]
    /\ exitCode' = <<1>>
    /\ history' = Append(history, Event("eof", <<>>))
    /\ UNCHANGED <<address, rendered>>
    /\ UNCHANGED <<argv, env, version, config, process, features, calls, errors,
                   out>>

Next ==
    \/ ParseArgs
    \/ GetGameConfig
    \/ BuildManager
    \/ \E line \in Lines : MainMenuInput(line)
    \/ MainMenuEOF

Spec == Init /\ [][Next]_vars

-----------------------------------------------------------------------------
(* SpecManager: a client of CheatManager and run_menu *)

InitManager ==
    /\ pc = "api"
    /\ argv = <<>>
    /\ env = None
    /\ version = None
    /\ config \in GameConfigs
    /\ process = AttachedProcess(config.process_name, Game1.pid)
    /\ features = NoFeatures
    /\ calls = <<>>
    /\ errors = <<>>
    /\ out = <<>>
    /\ exitCode = <<>>
    /\ exc = None
    /\ history = <<>>
    /\ address = None
    /\ rendered = <<>>

\* the client calls manager.register(identifier, callback)
Register(identifier, callback) ==
    /\ pc = "api"
    /\ Len(history) < MaxOps
    /\ features' = CheatManager_register(features, identifier, callback)
    /\ exc' = None
    /\ history' = Append(history,
                         Event("register", [identifier |-> identifier,
                                            callback |-> callback]))
    /\ UNCHANGED <<address, rendered>>
    /\ UNCHANGED <<pc, argv, env, version, config, process, calls, errors, out,
                   exitCode>>

\* the client calls manager.toggle(identifier)
Toggle(identifier) ==
    /\ pc = "api"
    /\ Len(history) < MaxOps
    /\ LET r == CheatManager_toggle(features, process, config, identifier)
       IN  /\ features' = r.features
           /\ calls' = calls \o r.calls
           /\ errors' = errors \o r.errors
           /\ exc' = r.exc
    /\ history' = Append(history, Event("toggle", identifier))
    /\ UNCHANGED <<address, rendered>>
    /\ UNCHANGED <<pc, argv, env, version, config, process, out, exitCode>>

\* the client calls run_menu(manager): the menu is displayed and a line awaited
RunMenu ==
    /\ pc = "api"
    /\ Len(history) < MaxOps
    /\ pc' = "menu"
    /\ out' = Append(out, "menu")
    /\ exc' = None
    /\ history' = Append(history, Event("run_menu", <<>>))
    /\ UNCHANGED <<address, rendered>>
    /\ UNCHANGED <<argv, env, version, config, process, features, calls, errors,
                   exitCode>>

\* run_menu reads a line; when the loop ends, by q or by an exception, control
\* is back with the client
ClientMenuInput(line) ==
    /\ pc = "menu"
    /\ Len(history) < MaxOps
    /\ LET r == run_menu_turn(features, process, config, line)
       IN  /\ features' = r.features
           /\ calls' = calls \o r.calls
           /\ errors' = errors \o r.errors
           /\ out' = out \o r.out
           /\ exc' = r.exc
           /\ pc' = IF r.looping THEN "menu" ELSE "api"
    /\ history' = Append(history, Event("input", line))
    /\ UNCHANGED <<address, rendered>>
    /\ UNCHANGED <<argv, env, version, config, process, exitCode>>

\* input() meets the end of stdin: EOFError leaves run_menu
ClientMenuEOF ==
    /\ pc = "menu"
    /\ Len(history) < MaxOps
    /\ pc' = "api"
    /\ exc' = [type |-> "EOFError"]
    /\ history' = Append(history, Event("eof", <<>>))
    /\ UNCHANGED <<address, rendered>>
    /\ UNCHANGED <<argv, env, version, config, process, features, calls, errors,
                   out, exitCode>>

NextManager ==
    \/ \E identifier \in Identifiers, callback \in ClientCallbacks :
          Register(identifier, callback)
    \/ \E identifier \in Identifiers : Toggle(identifier)
    \/ RunMenu
    \/ \E line \in Lines : ClientMenuInput(line)
    \/ ClientMenuEOF

SpecManager == InitManager /\ [][NextManager]_vars

-----------------------------------------------------------------------------
(* SpecSession: a client of build_manager and run_menu *)

\* the machines tried: psutil is there, the profile's process runs or not
SessionEnvironments(cfg) ==
    {[psutil |-> TRUE, procs |-> ps] :
        ps \in {<<>>, <<[name |-> cfg.process_name, pid |-> Game1.pid]>>}}

InitSession ==
    /\ pc = "build_manager"
    /\ argv = <<>>
    /\ config \in GameConfigs
    /\ env \in SessionEnvironments(config)
    /\ version = None
    /\ process = None
    /\ features = None
    /\ calls = <<>>
    /\ errors = <<>>
    /\ out = <<>>
    /\ exitCode = <<>>
    /\ exc = None
    /\ history = <<>>
    /\ address = None
    /\ rendered = <<>>

\* the client calls build_manager(config): it has a manager, or the exception
\* attach_to_process raised
ClientBuildManager ==
    /\ pc = "build_manager"
    /\ LET r == build_manager(config, env)
       IN  /\ pc' = IF r.raised THEN "failed" ELSE "api"
           /\ process' = r.process
           /\ features' = r.features
           /\ exc' = r.exc
    /\ UNCHANGED <<address, rendered>>
    /\ UNCHANGED <<argv, env, version, config, calls, errors, out, exitCode,
                   history>>

NextSession ==
    \/ ClientBuildManager
    \/ RunMenu
    \/ \E line \in Lines : ClientMenuInput(line)
    \/ ClientMenuEOF

SpecSession == InitSession /\ [][NextSession]_vars

-----------------------------------------------------------------------------
(* Properties *)

\* the latest call or input
Last == history[Len(history)]

\* the call or input before the latest
Previous == history[Len(history) - 1]

\* the latest call was manager.toggle(x) for an x registered when it started
ToggledRegistered ==
    /\ history # <<>>
    /\ Last.op = "toggle"
    /\ Last.arg \in DOMAIN Last.features

\* the latest call was manager.toggle(x) for an x not registered then
ToggledUnregistered ==
    /\ history # <<>>
    /\ Last.op = "toggle"
    /\ Last.arg \notin DOMAIN Last.features

\* C1: one call toggle(x) of a registered x flips x's enabled flag and invokes
\* x's callback exactly once, with the manager's process, the manager's
\* profile and the new enabled value
C1_ToggleFlipsAndCallsOnce ==
    ToggledRegistered =>
        LET x == Last.arg
        IN  /\ features[x].enabled = ~Last.features[x].enabled
            /\ Len(calls) = Last.ncalls + 1
            /\ calls[Len(calls)].callback = Last.features[x].callback
            /\ calls[Len(calls)].process = process
            /\ calls[Len(calls)].config = config
            /\ calls[Len(calls)].enabled = features[x].enabled

\* a feature that was ON has been toggled OFF, its callback told so
C1_Witness ==
    /\ ToggledRegistered
    /\ Last.features[Last.arg].enabled
    /\ ~features[Last.arg].enabled
    /\ calls[Len(calls)].enabled = FALSE

\* C2: toggle(x) of an unregistered x changes no feature, invokes no callback,
\* logs exactly one error, naming x, and returns without an exception
C2_UnknownToggleOnlyLogs ==
    ToggledUnregistered =>
        /\ features = Last.features
        /\ Len(calls) = Last.ncalls
        /\ Len(errors) = Last.nerrors + 1
        /\ errors[Len(errors)].text = "Unknown cheat"
        /\ errors[Len(errors)].arg = Last.arg
        /\ exc = None

\* an unregistered identifier has been toggled while another feature was ON
C2_Witness ==
    /\ ToggledUnregistered
    /\ \E x \in DOMAIN features : features[x].enabled
    /\ Len(errors) = Last.nerrors + 1

\* the latest call was manager.toggle(x) of a registered x whose callback raised
CallbackRaised ==
    /\ ToggledRegistered
    /\ Len(calls) > Last.ncalls
    /\ calls[Len(calls)].raised

\* C3: when x's callback raises during toggle(x), x's enabled flag holds the
\* value it had before the toggle
C3_FailedCallbackKeepsState ==
    CallbackRaised => features[Last.arg].enabled = Last.features[Last.arg].enabled

\* the latest line read by run_menu led to a toggle that failed: the identifier
\* was unknown, or the callback raised
MenuToggleFailed ==
    /\ history # <<>>
    /\ Last.op = "input"
    /\ \/ Len(errors) > Last.nerrors
       \/ Len(calls) > Last.ncalls /\ calls[Len(calls)].raised

\* C4: after a toggle that failed the menu loop is still running and awaits
\* the next command
C4_ToggleFailureKeepsSession ==
    MenuToggleFailed => pc = "menu" /\ exc = None

\* C5: toggle(x); toggle(x) of a registered x returns x's enabled flag to its
\* starting value and invokes x's callback exactly twice, first with the
\* negation of the starting value, then with the starting value
C5_TogglePairRestores ==
    (/\ Len(history) >= 2
     /\ ToggledRegistered
     /\ Previous.op = "toggle"
     /\ Previous.arg = Last.arg
     /\ Last.arg \in DOMAIN Previous.features) =>
        LET x == Last.arg
            start == Previous.features[x].enabled
            n == Len(calls)
        IN  /\ features[x].enabled = start
            /\ n = Previous.ncalls + 2
            /\ calls[n - 1].callback = Previous.features[x].callback
            /\ calls[n].callback = Previous.features[x].callback
            /\ calls[n - 1].enabled = ~start
            /\ calls[n].enabled = start

\* a feature that started ON has been toggled twice in a row
C5_Witness ==
    /\ Len(history) >= 2
    /\ ToggledRegistered
    /\ Previous.op = "toggle"
    /\ Previous.arg = Last.arg
    /\ Last.arg \in DOMAIN Previous.features
    /\ Previous.features[Last.arg].enabled
    /\ features[Last.arg].enabled

\* the registry is freshly built: run_menu has started and read nothing yet
FreshlyBuilt == pc = "menu" /\ history = <<>>

\* C6: in a freshly built registry exactly soap, instant_clean, flight and
\* dirt_esp are registered, each with enabled = false, and no callback has
\* been invoked
C6_FreshRegistryAllOff ==
    FreshlyBuilt =>
        /\ DOMAIN features = {"soap", "instant_clean", "flight", "dirt_esp"}
        /\ \A x \in DOMAIN features : features[x].enabled = FALSE
        /\ calls = <<>>

\* a registry has been built over the v2 profile
C6_Witness ==
    /\ FreshlyBuilt
    /\ config = PWS_V2_CONFIG
    /\ process = AttachedProcess(PWS_V2_CONFIG.process_name, Game2.pid)

\* the program was started with -g and a key that is no case variant of a
\* supported one, and parse_args has run
UnsupportedVersionGiven ==
    /\ argv # <<>>
    /\ lower(argv[2]) \notin DOMAIN SUPPORTED_GAMES
    /\ pc # "parse_args"

\* the error the program ended with names the key as it was given
ErrorMentionsKey ==
    \/ exc # None /\ exc.message[2] = argv[2]
    \/ errors # <<>> /\ errors[Len(errors)].arg[2] = argv[2]

\* C7: started with an unsupported game-version key, the program fails with an
\* error that mentions the key and exits with code 1
C7_UnsupportedVersionExitsOne ==
    UnsupportedVersionGiven =>
        /\ pc = "exited"
        /\ exitCode = <<1>>
        /\ ErrorMentionsKey

\* k is "v" or "V" followed by the digit
CaseVariant(k, digit) ==
    /\ Len(k) = 2
    /\ k[1] \in {"v", "V"}
    /\ k[2] = digit

\* C8: get_game_config returns the v1 profile for every case variant of "v1",
\* the v2 profile for every case variant of "v2", and for every other key
\* raises the error whose message names the key as supplied, returning nothing
C8_GetGameConfig ==
    pc # "call" =>
        LET k == version.key
        IN  /\ CaseVariant(k, "1") =>
                pc = "returned" /\ config = PWS_V1_CONFIG /\ exc = None
            /\ CaseVariant(k, "2") =>
                pc = "returned" /\ config = PWS_V2_CONFIG /\ exc = None
            /\ (~CaseVariant(k, "1") /\ ~CaseVariant(k, "2")) =>
                /\ pc = "raised"
                /\ config = None
                /\ exc.type = "KeyError"
                /\ exc.message = <<"Unsupported game version '", k, "'.">>

\* "V2" has been looked up and answered with the v2 profile
C8_Witness ==
    /\ pc = "returned"
    /\ version.key = <<"V", "2">>
    /\ config = PWS_V2_CONFIG

\* the unsupported "V3" has been looked up and refused under that spelling
C8_WitnessRefused ==
    /\ pc = "raised"
    /\ version.key = <<"V", "3">>
    /\ exc.message[2] = <<"V", "3">>

\* on this machine attaching to the selected profile's process fails: psutil
\* is missing or no running process has the profile's process name
AttachFails ==
    /\ config # None
    /\ \/ ~env.psutil
       \/ \A i \in 1..Len(env.procs) : env.procs[i].name # config.process_name

\* C9: when the attach fails the program prints the remediation text and main
\* returns 1; no registry is built, the menu never starts, and no feature is
\* registered or toggled and no callback invoked in that run
C9_AttachFailureExitsOne ==
    AttachFails =>
        /\ features = None
        /\ process = None
        /\ calls = <<>>
        /\ history = <<>>
        /\ pc \in {"build_manager", "exited"}
        /\ \A i \in 1..Len(out) : out[i] # "menu"
        /\ pc = "exited" =>
              /\ exitCode = <<1>>
              /\ out[Len(out)] = "remediation"
              /\ errors[Len(errors)].text = "ProcessNotFoundError"

\* psutil is there and the other game runs, so the v2 process was not found
\* and main has returned
C9_Witness ==
    /\ AttachFails
    /\ env.psutil
    /\ env.procs = <<Game1>>
    /\ config = PWS_V2_CONFIG
    /\ pc = "exited"
    /\ exitCode = <<1>>

\* the choices run_menu acts on
Choices == {<<"1">>, <<"2">>, <<"3">>, <<"4">>, <<"q">>}

\* the latest line read by run_menu is none of the choices once trimmed and
\* lower-cased
InvalidLineRead ==
    /\ history # <<>>
    /\ Last.op = "input"
    /\ lower(strip(Last.arg)) \notin Choices

\* C10: a line that is no choice makes the loop print the "Invalid option"
\* message, display the menu again and await the next line, with every
\* feature unchanged and no callback invoked
C10_InvalidInputReprompts ==
    InvalidLineRead =>
        /\ Len(out) = Last.nout + 2
        /\ out[Len(out) - 1] = "invalid"
        /\ out[Len(out)] = "menu"
        /\ pc = "menu"
        /\ exitCode = <<>>
        /\ features = Last.features
        /\ Len(calls) = Last.ncalls

\* "9" was typed while a feature was ON
C10_Witness ==
    /\ InvalidLineRead
    /\ Last.arg = <<"9">>
    /\ \E x \in DOMAIN features : features[x].enabled
    /\ pc = "menu"

\* the latest line read by run_menu is "q" once trimmed and lower-cased
QuitRead ==
    /\ history # <<>>
    /\ Last.op = "input"
    /\ lower(strip(Last.arg)) = <<"q">>

\* C11: on a line that is "q" once trimmed and lower-cased the loop prints the
\* farewell line and ends: main returns 0, the features are as they were, and
\* no toggle or callback follows (the line stays the run's latest event)
C11_QuitEndsSession ==
    QuitRead =>
        /\ pc = "exited"
        /\ exitCode = <<0>>
        /\ exc = None
        /\ Len(out) = Last.nout + 1
        /\ out[Len(out)] = "farewell"
        /\ features = Last.features
        /\ Len(calls) = Last.ncalls
        /\ Len(errors) = Last.nerrors

\* " Q " was typed while a feature was ON, and main has returned 0
C11_Witness ==
    /\ QuitRead
    /\ Last.arg = <<" ", "Q", " ">>
    /\ \E x \in DOMAIN features : features[x].enabled
    /\ exitCode = <<0>>

\* the attach failed and main has returned: the error it logged
AttachError == errors[Len(errors)]

HexChars == {HexDigits[i] : i \in 1..Len(HexDigits)}

\* how many hex digits follow the "0x" that s starts with
RECURSIVE DigitRun(_, _)
DigitRun(s, i) ==
    IF i <= Len(s) /\ s[i] \in HexChars THEN 1 + DigitRun(s, i + 1) ELSE 0

\* s holds " -> " somewhere
HasArrow(s) == \E i \in 1..Len(s) - 3 : SubSeq(s, i, i + 3) = Arrow

\* describe() has returned
Described == pc = "described"

\* C13: describe() renders base as "0x" and the same number of upper-case hex
\* digits whatever the value, followed by " -> " and the " -> "-joined offsets,
\* rendered alike, exactly when offsets is not empty
C13_DescribeFixedWidth ==
    Described =>
        /\ SubSeq(rendered, 1, 2) = <<"0", "x">>
        /\ DigitRun(rendered, 3) = HexWidth
        /\ HasArrow(rendered) <=> address.offsets # <<>>
        /\ address.offsets = <<>> => Len(rendered) = 2 + HexWidth
        /\ address.offsets # <<>> =>
              /\ SubSeq(rendered, 3 + HexWidth, 6 + HexWidth) = Arrow
              /\ Len(rendered) =
                    (2 + HexWidth) + Len(address.offsets) * (4 + 2 + HexWidth)

\* what does hold of describe(): at least HexWidth digits, and an arrow exactly
\* when offsets is not empty
DescribeArrowIffOffsets ==
    Described =>
        /\ SubSeq(rendered, 1, 2) = <<"0", "x">>
        /\ DigitRun(rendered, 3) >= HexWidth
        /\ HasArrow(rendered) <=> address.offsets # <<>>
        /\ address.offsets = <<>> => Len(rendered) = 2 + DigitRun(rendered, 3)

\* a manager has been built
Built == features # None

\* the boolean passed to the most recent of the first i invocations of
\* callback, FALSE if it was not invoked
RECURSIVE LastPassed(_, _)
LastPassed(callback, i) ==
    IF i = 0 THEN FALSE
    ELSE IF calls[i].callback = callback THEN calls[i].enabled
    ELSE LastPassed(callback, i - 1)

\* the menu choice that stands for feature x
ChoiceOf(x) ==
    CASE x = "soap" -> <<"1">>
      [] x = "instant_clean" -> <<"2">>
      [] x = "flight" -> <<"3">>
      [] x = "dirt_esp" -> <<"4">>

\* how many of the first i events toggled x from the menu
RECURSIVE TimesToggled(_, _)
TimesToggled(x, i) ==
    IF i = 0 THEN 0
    ELSE TimesToggled(x, i - 1)
            + (IF history[i].op = "input" /\ lower(strip(history[i].arg)) = ChoiceOf(x)
               THEN 1 ELSE 0)

\* no callback invocation so far has raised
NoCallbackFailed == \A i \in 1..Len(calls) : ~calls[i].raised

\* C14: with callbacks that do not fail, every feature's enabled flag is the
\* boolean last passed to its callback (false if never invoked), the feature
\* is ON exactly when it was toggled an odd number of times, and the flag
\* changes only in a toggle that also invokes the feature's callback
C14_EnabledIsLastRequested ==
    (Built /\ NoCallbackFailed) =>
        \A x \in DOMAIN features :
            /\ features[x].enabled = LastPassed(features[x].callback, Len(calls))
            /\ features[x].enabled <=> (TimesToggled(x, Len(history)) % 2 = 1)
            /\ (history # <<>> /\ features[x].enabled # Last.features[x].enabled) =>
                  /\ Len(calls) = Last.ncalls + 1
                  /\ calls[Len(calls)].callback = features[x].callback
                  /\ calls[Len(calls)].enabled = features[x].enabled

\* one feature has been toggled twice and is OFF again while another, toggled
\* once, is ON
C14_Witness ==
    /\ Built
    /\ \E x \in DOMAIN features :
          /\ TimesToggled(x, Len(history)) = 2
          /\ ~features[x].enabled
    /\ \E y \in DOMAIN features :
          /\ TimesToggled(y, Len(history)) = 1
          /\ features[y].enabled

\* the features of a registry built by build_manager
Predefined == {"soap", "instant_clean", "flight", "dirt_esp"}

\* the callback build_manager binds to feature x
CallbackOf(x) ==
    CASE x = "soap" -> "toggle_infinite_soap"
      [] x = "instant_clean" -> "toggle_instant_clean"
      [] x = "flight" -> "toggle_flight"
      [] x = "dirt_esp" -> "toggle_dirt_esp"

\* the latest line read by run_menu is the choice that stands for feature x
ChoiceRead(x) ==
    /\ history # <<>>
    /\ Last.op = "input"
    /\ lower(strip(Last.arg)) = ChoiceOf(x)

\* C15: the inputs "1", "2", "3" and "4" toggle soap, instant_clean, flight
\* and dirt_esp: the mapped feature's flag is flipped and only its callback is
\* invoked, once, while the other three features are left as they were
C15_MenuTogglesMappedFeature ==
    \A x \in Predefined :
        ChoiceRead(x) =>
            /\ features[x].enabled = ~Last.features[x].enabled
            /\ \A y \in Predefined \ {x} : features[y] = Last.features[y]
            /\ DOMAIN features = Predefined
            /\ Len(calls) = Last.ncalls + 1
            /\ calls[Len(calls)].callback = CallbackOf(x)
            /\ calls[Len(calls)].enabled = features[x].enabled

\* " 3\t" was typed while soap was ON: flight is ON now and soap still is
C15_Witness ==
    /\ ChoiceRead("flight")
    /\ Last.arg = <<" ", "3", "\t">>
    /\ Last.features["soap"].enabled
    /\ features["soap"].enabled
    /\ features["flight"].enabled

\* the latest call was manager.register(x, cb)
Registered ==
    /\ history # <<>>
    /\ Last.op = "register"

\* C16: register(x, cb) leaves x registered OFF and bound to cb, whether x is
\* new or was registered before (even ON), invokes no callback, leaves every
\* other feature as it was, and keeps one feature per identifier
C16_RegisterLastWriteWins ==
    Registered =>
        LET x == Last.arg.identifier
        IN  /\ DOMAIN features = DOMAIN Last.features \cup {x}
            /\ features[x].enabled = FALSE
            /\ features[x].callback = Last.arg.callback
            /\ \A y \in DOMAIN Last.features \ {x} : features[y] = Last.features[y]
            /\ \A y \in DOMAIN features : features[y].identifier = y
            /\ Len(calls) = Last.ncalls
            /\ Len(errors) = Last.nerrors
            /\ exc = None

\* a feature that was ON under one callback has been registered again with
\* another callback
C16_Witness ==
    /\ Registered
    /\ Last.arg.identifier \in DOMAIN Last.features
    /\ Last.features[Last.arg.identifier].enabled
    /\ Last.features[Last.arg.identifier].callback # Last.arg.callback
    /\ ~features[Last.arg.identifier].enabled

\* cfg is one of the profiles of SUPPORTED_GAMES
SupportedProfile(cfg) ==
    \E k \in DOMAIN SUPPORTED_GAMES : SUPPORTED_GAMES[k].name = cfg.name

\* the keys of the profile map that feature x's callback subscripts
MapRead(x, cfg) ==
    IF x \in {"soap", "flight"}
    THEN DOMAIN cfg.base_addresses
    ELSE DOMAIN cfg.function_hooks

\* the predefined feature that callback is bound to
FeatureOf(callback) == CHOOSE x \in Predefined : CallbackOf(x) = callback

\* C17: every supported profile holds the key each predefined feature's
\* callback resolves, so no toggle under a supported profile fails; under a
\* profile that lacks the key the callback raises KeyError naming the key
C17_ProfileKeysResolve ==
    /\ \A k \in DOMAIN SUPPORTED_GAMES :
          \A x \in Predefined : x \in MapRead(x, SUPPORTED_GAMES[k])
    /\ SupportedProfile(config) =>
          /\ \A x \in Predefined : x \in MapRead(x, config)
          /\ \A i \in 1..Len(calls) : ~calls[i].raised
          /\ exc # None => exc.type # "KeyError"
    /\ \A i \in 1..Len(calls) :
          calls[i].raised <=>
              FeatureOf(calls[i].callback) \notin
                  MapRead(FeatureOf(calls[i].callback), calls[i].config)
    /\ (Len(calls) > 0 /\ history # <<>> /\ Last.op = "input"
            /\ Len(calls) > Last.ncalls /\ calls[Len(calls)].raised) =>
          /\ exc # None
          /\ exc.type = "KeyError"
          /\ exc.message = <<FeatureOf(calls[Len(calls)].callback)>>

\* under the v2 profile three features have been toggled ON from the menu and
\* no callback has raised
C17_Witness ==
    /\ config = PWS_V2_CONFIG
    /\ Len(calls) = 3
    /\ \A i \in 1..Len(calls) : ~calls[i].raised
    /\ Cardinality({x \in DOMAIN features : features[x].enabled}) = 3
    /\ features["flight"].enabled
    /\ features["dirt_esp"].enabled

\* under the profile without hooks "2" was typed: toggle_instant_clean raised
\* KeyError naming instant_clean
C17_WitnessMissingKey ==
    /\ config = PartialConfig
    /\ history # <<>>
    /\ Last.op = "input"
    /\ Last.arg = <<"2">>
    /\ calls[Len(calls)].raised
    /\ exc = KeyError(<<"instant_clean">>)

=============================================================================
